---- MODULE Spec2Model ----
(***************************************************************************)
(* Model of src/validation/enterprise_dab_validator.py: one run of main(). *)
(* The run creates the report directory, checks the environments of        *)
(* databricks.yml, loads every job file and runs the six policy checks on  *)
(* it, prints the report and decides the exit status.                      *)
(***************************************************************************)
EXTENDS Integers, Sequences, FiniteSets, TLC

VARIABLES
    pc,              \* position of the run inside main()
    strict,          \* args.strict
    output_given,    \* args.output is not None
    io,              \* where the file system refuses the report, if anywhere
    top,             \* the file databricks.yml
    jobs_dir_exists, \* self.jobs_dir.exists()
    job_files,       \* the files the two globs of validate() discover, in order
    fi,              \* index of the job file being validated
    loaded,          \* the object graph load_yaml returned for that file
    job_config,      \* the same object graph as the checks leave it
    errors,          \* self.errors
    warnings,        \* self.warnings
    suggestions,     \* self.suggestions
    is_valid,        \* the value validate() returned
    console,         \* what print_results has put on the console
    report,          \* what print_results has put in the report file
    raised_in,       \* the step an uncaught exception came from, "" if none
    exit_code        \* the status of the process, -1 while it runs

vars == <<pc, strict, output_given, io, top, jobs_dir_exists, job_files, fi,
          loaded, job_config, errors, warnings, suggestions, is_valid,
          console, report, raised_in, exit_code>>

(***************************************************************************)
(* Bounds of the inputs.                                                   *)
(***************************************************************************)
\* job files the globs discover
MaxFiles == 2
\* jobs of a job file
MaxJobs == 2
\* targets of databricks.yml
MaxTargets == 2
\* items of a sequence
MaxSeq == 2

(***************************************************************************)
(* Text.  A string is a TLA+ string; Spell gives the characters of every   *)
(* string the inputs and the policy constants use, so that the tests the   *)
(* code makes on text are computed on the characters.                      *)
(***************************************************************************)
Spell ==
    [s \in {""} |-> <<>>]
    @@ [s \in {"abc"} |-> <<"a", "b", "c">>]
    @@ [s \in {"hunter2"} |-> <<"h", "u", "n", "t", "e", "r", "2">>]
    @@ [s \in {"12345"} |-> <<"1", "2", "3", "4", "5">>]
    @@ [s \in {"15"} |-> <<"1", "5">>]
    @@ [s \in {"6"} |-> <<"6">>]
    @@ [s \in {"3"} |-> <<"3">>]
    @@ [s \in {"${v}"} |-> <<"$", "{", "v", "}">>]
    @@ [s \in {"${bundle.environment}"} |->
           <<"$", "{", "b", "u", "n", "d", "l", "e", ".", "e", "n", "v", "i",
             "r", "o", "n", "m", "e", "n", "t", "}">>]
    @@ [s \in {"${"} |-> <<"$", "{">>]
    @@ [s \in {"/tmp/"} |-> <<"/", "t", "m", "p", "/">>]
    @@ [s \in {"/personal/"} |->
           <<"/", "p", "e", "r", "s", "o", "n", "a", "l", "/">>]
    @@ [s \in {"/tmp/nb"} |-> <<"/", "t", "m", "p", "/", "n", "b">>]
    @@ [s \in {"/nb"} |-> <<"/", "n", "b">>]
    @@ [s \in {"main"} |-> <<"m", "a", "i", "n">>]
    @@ [s \in {"Main"} |-> <<"M", "a", "i", "n">>]
    @@ [s \in {"Etl"} |-> <<"E", "t", "l">>]
    @@ [s \in {"etl"} |-> <<"e", "t", "l">>]
    @@ [s \in {"Ops"} |-> <<"O", "p", "s">>]
    @@ [s \in {"Job1"} |-> <<"J", "o", "b", "1">>]
    @@ [s \in {"Job2"} |-> <<"J", "o", "b", "2">>]
    @@ [s \in {"Job3"} |-> <<"J", "o", "b", "3">>]
    @@ [s \in {"Job4"} |-> <<"J", "o", "b", "4">>]
    @@ [s \in {"password"} |-> <<"p", "a", "s", "s", "w", "o", "r", "d">>]
    @@ [s \in {"Passwords"} |->
           <<"P", "a", "s", "s", "w", "o", "r", "d", "s">>]
    @@ [s \in {"secret"} |-> <<"s", "e", "c", "r", "e", "t">>]
    @@ [s \in {"token"} |-> <<"t", "o", "k", "e", "n">>]
    @@ [s \in {"key"} |-> <<"k", "e", "y">>]
    @@ [s \in {"api_key"} |-> <<"a", "p", "i", "_", "k", "e", "y">>]
    @@ [s \in {"name"} |-> <<"n", "a", "m", "e">>]
    @@ [s \in {"team"} |-> <<"t", "e", "a", "m">>]
    @@ [s \in {"cost_center"} |->
           <<"c", "o", "s", "t", "_", "c", "e", "n", "t", "e", "r">>]
    @@ [s \in {"environment"} |->
           <<"e", "n", "v", "i", "r", "o", "n", "m", "e", "n", "t">>]
    @@ [s \in {"catalog"} |-> <<"c", "a", "t", "a", "l", "o", "g">>]
    @@ [s \in {"schema"} |-> <<"s", "c", "h", "e", "m", "a">>]
    @@ [s \in {"timeout_seconds"} |->
           <<"t", "i", "m", "e", "o", "u", "t", "_", "s", "e", "c", "o", "n",
             "d", "s">>]
    @@ [s \in {"retry_on_timeout"} |->
           <<"r", "e", "t", "r", "y", "_", "o", "n", "_", "t", "i", "m", "e",
             "o", "u", "t">>]
    @@ [s \in {"max_concurrent_runs"} |->
           <<"m", "a", "x", "_", "c", "o", "n", "c", "u", "r", "r", "e", "n",
             "t", "_", "r", "u", "n", "s">>]
    @@ [s \in {"job_cluster_key"} |->
           <<"j", "o", "b", "_", "c", "l", "u", "s", "t", "e", "r", "_", "k",
             "e", "y">>]
    @@ [s \in {"num_workers"} |->
           <<"n", "u", "m", "_", "w", "o", "r", "k", "e", "r", "s">>]
    @@ [s \in {"node_type_id"} |->
           <<"n", "o", "d", "e", "_", "t", "y", "p", "e", "_", "i", "d">>]
    @@ [s \in {"notebook_path"} |->
           <<"n", "o", "t", "e", "b", "o", "o", "k", "_", "p", "a", "t",
             "h">>]

\* the characters of a string
Chars(s) == Spell[s]

UpperCase == {"A", "B", "C", "D", "E", "F", "G", "H", "I", "J", "K", "L", "M",
              "N", "O", "P", "Q", "R", "S", "T", "U", "V", "W", "X", "Y", "Z"}
LowerCase == {"a", "b", "c", "d", "e", "f", "g", "h", "i", "j", "k", "l", "m",
              "n", "o", "p", "q", "r", "s", "t", "u", "v", "w", "x", "y", "z"}
Digits == {"0", "1", "2", "3", "4", "5", "6", "7", "8", "9"}

LowerOf ==
    [c \in {"A"} |-> "a"]
    @@ [c \in {"B"} |-> "b"]
    @@ [c \in {"C"} |-> "c"]
    @@ [c \in {"D"} |-> "d"]
    @@ [c \in {"E"} |-> "e"]
    @@ [c \in {"F"} |-> "f"]
    @@ [c \in {"G"} |-> "g"]
    @@ [c \in {"H"} |-> "h"]
    @@ [c \in {"I"} |-> "i"]
    @@ [c \in {"J"} |-> "j"]
    @@ [c \in {"K"} |-> "k"]
    @@ [c \in {"L"} |-> "l"]
    @@ [c \in {"M"} |-> "m"]
    @@ [c \in {"N"} |-> "n"]
    @@ [c \in {"O"} |-> "o"]
    @@ [c \in {"P"} |-> "p"]
    @@ [c \in {"Q"} |-> "q"]
    @@ [c \in {"R"} |-> "r"]
    @@ [c \in {"S"} |-> "s"]
    @@ [c \in {"T"} |-> "t"]
    @@ [c \in {"U"} |-> "u"]
    @@ [c \in {"V"} |-> "v"]
    @@ [c \in {"W"} |-> "w"]
    @@ [c \in {"X"} |-> "x"]
    @@ [c \in {"Y"} |-> "y"]
    @@ [c \in {"Z"} |-> "z"]

\* c.lower()
Lower(c) == IF c \in UpperCase THEN LowerOf[c] ELSE c

\* cs[i..] starts with the characters pre
PrefixAt(cs, i, pre) ==
    /\ i + Len(pre) - 1 <= Len(cs)
    /\ \A k \in 1..Len(pre) : cs[i + k - 1] = pre[k]

\* str.startswith
StartsWith(s, prefix) == PrefixAt(Chars(s), 1, Chars(prefix))

\* the operator "sub in s" on two strings
Contains(s, sub) ==
    \E i \in 1..(Len(Chars(s)) + 1) : PrefixAt(Chars(s), i, Chars(sub))

\* str.isdigit
IsDigit(s) == Chars(s) # <<>> /\ \A k \in 1..Len(Chars(s)) : Chars(s)[k] \in Digits

\* int(s) of the digit strings the inputs use
IntOfText == ("12345" :> 12345) @@ ("15" :> 15) @@ ("6" :> 6) @@ ("3" :> 3)

(***************************************************************************)
(* Object graphs.  A node of the file's text is a scalar (its characters   *)
(* and whether it is written in quotes), a mapping (ordered key/value      *)
(* pairs), a sequence, or an alias *a of an anchored mapping.  A loaded    *)
(* node is a str, an int, None, a dict, a list, or a reference to a dict   *)
(* that several places of the graph share (the heap holds it).             *)
(***************************************************************************)
Scalar(text, quoted) == [t |-> "scalar", text |-> text, q |-> quoted]
Str(s) == [t |-> "str", s |-> s]
Num(n) == [t |-> "int", n |-> n]
None == [t |-> "null"]
Map(kv) == [t |-> "map", kv |-> kv]
Lst(xs) == [t |-> "seq", xs |-> xs]
Alias(a) == [t |-> "alias", a |-> a]
KV(k, v) == [k |-> k, v |-> v]

\* yaml's implicit resolver: what an unquoted scalar is read as
ResolvePlain(text) ==
    IF text \in DOMAIN IntOfText THEN Num(IntOfText[text])
    ELSE IF text \in {"", "null", "~"} THEN None
    ELSE Str(text)

RECURSIVE Construct(_)
\* yaml.safe_load on a node of the text
Construct(n) ==
    CASE n.t = "scalar" -> IF n.q THEN Str(n.text) ELSE ResolvePlain(n.text)
      [] n.t = "map" ->
           Map([i \in 1..Len(n.kv) |-> KV(n.kv[i].k, Construct(n.kv[i].v))])
      [] n.t = "seq" -> Lst([i \in 1..Len(n.xs) |-> Construct(n.xs[i])])
      [] OTHER -> n

\* yaml.safe_load on a whole document: the root and the anchored mappings
SafeLoad(doc) ==
    [root |-> Construct(doc.root),
     heap |-> [a \in 1..Len(doc.anchors) |-> Construct(doc.anchors[a])]]

\* the {} load_yaml returns for an empty or unreadable file
EmptyConfig == [root |-> Map(<<>>), heap |-> <<>>]

\* the object a node stands for
Deref(n, heap) == IF n.t = "alias" THEN heap[n.a] ELSE n

IsMap(n, heap) == Deref(n, heap).t = "map"
IsStr(n) == n.t = "str"

\* Python truthiness: "not x"
Falsy(n, heap) ==
    LET d == Deref(n, heap) IN
    CASE d.t = "null" -> TRUE
      [] d.t = "map" -> d.kv = <<>>
      [] d.t = "seq" -> d.xs = <<>>
      [] d.t = "str" -> d.s = ""
      [] d.t = "int" -> d.n = 0
      [] OTHER -> FALSE

HasKey(kv, k) == \E i \in 1..Len(kv) : kv[i].k = k
Lookup(kv, k) == kv[CHOOSE i \in 1..Len(kv) : kv[i].k = k].v
Keys(kv) == {kv[i].k : i \in 1..Len(kv)}

\* dict.get(k, default) on a node known to be a dict
Get(n, heap, k, default) ==
    LET kv == Deref(n, heap).kv IN
    IF HasKey(kv, k) THEN Lookup(kv, k) ELSE default

\* "k in d" on a node known to be a dict
In(n, heap, k) == HasKey(Deref(n, heap).kv, k)

\* str(x) of a scalar
PyStr(n) ==
    CASE n.t = "str" -> n.s
      [] n.t = "int" -> ToString(n.n)
      [] n.t = "null" -> "None"
      [] OTHER -> "{...}"

\* iter(x): the items a for loop sees, or a TypeError
Iter(n, heap) ==
    LET d == Deref(n, heap) IN
    CASE d.t = "seq" -> [ok |-> TRUE, items |-> d.xs]
      [] d.t = "map" ->
           [ok |-> TRUE, items |-> [i \in 1..Len(d.kv) |-> Str(d.kv[i].k)]]
      [] d.t = "str" ->
           [ok |-> TRUE,
            items |-> [i \in 1..Len(Chars(d.s)) |-> Str(Chars(d.s)[i])]]
      [] OTHER -> [ok |-> FALSE, items |-> <<>>]

(***************************************************************************)
(* Findings.  A finding is the message the code appends to a bucket, kept  *)
(* as the fields the message is formatted from.  What a check does is its  *)
(* findings, in order, and whether it raised before it returned.           *)
(***************************************************************************)
Finding(kind, file, job, path, names, envs) ==
    [kind |-> kind, file |-> file, job |-> job, path |-> path,
     names |-> names, envs |-> envs]

Ok == [raised |-> FALSE, e |-> <<>>, w |-> <<>>, s |-> <<>>]
Raise == [raised |-> TRUE, e |-> <<>>, w |-> <<>>, s |-> <<>>]
Error(f) == [raised |-> FALSE, e |-> <<f>>, w |-> <<>>, s |-> <<>>]
Warning(f) == [raised |-> FALSE, e |-> <<>>, w |-> <<f>>, s |-> <<>>]
Suggestion(f) == [raised |-> FALSE, e |-> <<>>, w |-> <<>>, s |-> <<f>>]

\* a, then b unless a raised
Then(a, b) ==
    IF a.raised THEN a
    ELSE [raised |-> b.raised, e |-> a.e \o b.e, w |-> a.w \o b.w,
          s |-> a.s \o b.s]

When(cond, r) == IF cond THEN r ELSE Ok

(***************************************************************************)
(* Policy constants of __init__.                                           *)
(***************************************************************************)
required_tags == {"cost_center", "environment", "team"}

sensitive_fields == {"existing_cluster_id", "instance_pool_id", "warehouse_id",
                     "catalog", "schema", "volume", "storage_location"}

\* the word each of the four regular expressions starts with
security_patterns == <<"password", "secret", "token", "key">>

(***************************************************************************)
(* check_variable_usage_policy                                             *)
(***************************************************************************)
RECURSIVE check_object(_, _, _, _)
RECURSIVE check_items(_, _, _, _, _)
RECURSIVE check_list(_, _, _, _, _)

HardcodedError(current_path, file) ==
    <<Finding("hardcoded", file, "", current_path, {}, <<>>)>>

\* the body of "for key, value in obj.items()", from the i-th pair on
check_items(kv, i, heap, path, file) ==
    IF i > Len(kv) THEN <<>>
    ELSE LET key == kv[i].k
             value == kv[i].v
             current_path == IF path # "" THEN path \o "." \o key ELSE key
         IN  (IF /\ key \in sensitive_fields
                 /\ IsStr(value)
                 /\ ~StartsWith(value.s, "${")
              THEN HardcodedError(current_path, file)
              ELSE <<>>)
             \o check_object(value, heap, current_path, file)
             \o check_items(kv, i + 1, heap, path, file)

\* the loop over a list with the index counted from one
check_list_from_one(xs, i, heap, path, file) ==
    IF i > Len(xs) THEN <<>>
    ELSE check_object(xs[i], heap, path \o "[" \o ToString(i) \o "]", file)
         \o check_list(xs, i + 1, heap, path, file)

\* the body of "for i, item in enumerate(obj)", from the i-th item on
check_list(xs, i, heap, path, file) ==
    IF i > Len(xs) THEN <<>>
    ELSE check_object(xs[i], heap, path \o "[" \o ToString(i - 1) \o "]", file)
         \o check_list(xs, i + 1, heap, path, file)

check_object(obj, heap, path, file) ==
    LET d == Deref(obj, heap) IN
    CASE d.t = "map" -> check_items(d.kv, 1, heap, path, file)
      [] d.t = "seq" -> check_list(d.xs, 1, heap, path, file)
      [] OTHER -> <<>>

check_variable_usage_policy(cfg, file) ==
    [raised |-> FALSE, e |-> check_object(cfg.root, cfg.heap, "", file),
     w |-> <<>>, s |-> <<>>]

(***************************************************************************)
(* job_config.get("resources", {}).get("jobs", {}) and jobs.items()        *)
(***************************************************************************)
JobsOf(cfg) ==
    IF ~IsMap(cfg.root, cfg.heap) THEN [ok |-> FALSE, kv |-> <<>>]
    ELSE LET res == Get(cfg.root, cfg.heap, "resources", Map(<<>>)) IN
         IF ~IsMap(res, cfg.heap) THEN [ok |-> FALSE, kv |-> <<>>]
         ELSE LET jobs == Get(res, cfg.heap, "jobs", Map(<<>>)) IN
              IF ~IsMap(jobs, cfg.heap) THEN [ok |-> FALSE, kv |-> <<>>]
              ELSE [ok |-> TRUE, kv |-> Deref(jobs, cfg.heap).kv]

(***************************************************************************)
(* check_naming_conventions                                                *)
(***************************************************************************)
\* re.match(r'^[A-Z][a-zA-Z0-9_]*', s)
MatchesJobName(s) == Chars(s) # <<>> /\ Chars(s)[1] \in UpperCase

\* re.match(r'^[a-z][a-z0-9_]*$', s)
MatchesClusterKey(s) ==
    /\ Chars(s) # <<>>
    /\ Chars(s)[1] \in LowerCase
    /\ \A k \in 1..Len(Chars(s)) : Chars(s)[k] \in LowerCase \cup Digits \cup {"_"}

\* "${bundle.environment}" in str(v); the inputs hold no name that is a
\* collection, whose str() would show the strings inside it
NameHasEnvironment(v) == IsStr(v) /\ Contains(v.s, "${bundle.environment}")

RECURSIVE naming_clusters(_, _, _)
naming_clusters(items, i, heap) ==
    IF i > Len(items) THEN Ok
    ELSE IF ~IsMap(items[i], heap) THEN Raise
    ELSE LET cluster_key == Get(items[i], heap, "job_cluster_key", Str("")) IN
         Then(IF Falsy(cluster_key, heap) THEN Ok
              ELSE IF ~IsStr(cluster_key) THEN Raise
              ELSE When(~MatchesClusterKey(cluster_key.s),
                        Warning(Finding("cluster_key", "", "", cluster_key.s,
                                        {}, <<>>))),
              naming_clusters(items, i + 1, heap))

naming_job(job_name, job_def, heap, file) ==
    Then(When(~MatchesJobName(job_name),
              Warning(Finding("job_name", file, job_name, "", {}, <<>>))),
         IF ~IsMap(job_def, heap) THEN Raise
         ELSE Then(When(~NameHasEnvironment(Get(job_def, heap, "name", Str(""))),
                        Warning(Finding("env_reference", "", job_name, "", {},
                                        <<>>))),
                   LET clusters == Iter(Get(job_def, heap, "job_clusters",
                                            Lst(<<>>)), heap)
                   IN  IF ~clusters.ok THEN Raise
                       ELSE naming_clusters(clusters.items, 1, heap)))

RECURSIVE naming_jobs(_, _, _, _)
naming_jobs(kv, i, heap, file) ==
    IF i > Len(kv) THEN Ok
    ELSE Then(naming_job(kv[i].k, kv[i].v, heap, file),
              naming_jobs(kv, i + 1, heap, file))

check_naming_conventions(cfg, file) ==
    IF ~JobsOf(cfg).ok THEN Raise
    ELSE naming_jobs(JobsOf(cfg).kv, 1, cfg.heap, file)

(***************************************************************************)
(* check_required_tags.  tags is the dict object job_def holds under       *)
(* "tags" when the key is there, so tags.update writes into the loaded     *)
(* graph; with the key absent it is a fresh {} nobody else sees.           *)
(***************************************************************************)
\* d[k] = v on the pairs of a dict
Put(kv, k, v) ==
    IF HasKey(kv, k)
    THEN [i \in 1..Len(kv) |-> IF kv[i].k = k THEN KV(k, v) ELSE kv[i]]
    ELSE Append(kv, KV(k, v))

RECURSIVE Update(_, _, _)
\* d.update(other) on the pairs of two dicts, from other's i-th pair on
Update(kv, other, i) ==
    IF i > Len(other) THEN kv
    ELSE Update(Put(kv, other[i].k, other[i].v), other, i + 1)

RECURSIVE SetPath(_, _, _, _)
\* the graph with the dict object found along the keys of path replaced by
\* new: through a shared dict the write lands in the heap
SetPath(node, heap, path, new) ==
    IF path = <<>>
    THEN IF node.t = "alias"
         THEN [node |-> node, heap |-> [heap EXCEPT ![node.a] = new]]
         ELSE [node |-> new, heap |-> heap]
    ELSE LET d == Deref(node, heap)
             i == CHOOSE j \in 1..Len(d.kv) : d.kv[j].k = Head(path)
             r == SetPath(d.kv[i].v, heap, Tail(path), new)
             d2 == Map([d.kv EXCEPT ![i] = KV(d.kv[i].k, r.node)])
         IN  IF node.t = "alias"
             THEN [node |-> node, heap |-> [r.heap EXCEPT ![node.a] = d2]]
             ELSE [node |-> d2, heap |-> r.heap]

RECURSIVE update_from_clusters(_, _, _, _, _)
\* "for cluster in ...: tags.update(cluster_tags)" from the i-th cluster on;
\* tags is the node job_def holds, val the value of that object so far
update_from_clusters(tags, val, items, i, heap) ==
    IF i > Len(items) THEN [raised |-> FALSE, val |-> val]
    ELSE IF ~IsMap(items[i], heap) THEN [raised |-> TRUE, val |-> val]
    ELSE LET new_cluster == Get(items[i], heap, "new_cluster", Map(<<>>)) IN
         IF ~IsMap(new_cluster, heap) THEN [raised |-> TRUE, val |-> val]
         ELSE LET cluster_tags == Get(new_cluster, heap, "custom_tags", Map(<<>>))
                  same == tags.t = "alias" /\ cluster_tags = tags
                  other == IF same THEN val ELSE Deref(cluster_tags, heap)
              IN  IF val.t # "map" THEN [raised |-> TRUE, val |-> val]
                  ELSE IF other.t = "map"
                  THEN update_from_clusters(tags, Map(Update(val.kv, other.kv, 1)),
                                            items, i + 1, heap)
                  ELSE IF other.t \in {"seq", "str"} /\ Falsy(other, heap)
                  THEN update_from_clusters(tags, val, items, i + 1, heap)
                  ELSE [raised |-> TRUE, val |-> val]

TagsPath(job_name) == <<"resources", "jobs", job_name, "tags">>

\* the graph after tags has taken the value val
WriteTags(cfg, job_name, job_def, val) ==
    IF In(job_def, cfg.heap, "tags")
    THEN LET r == SetPath(cfg.root, cfg.heap, TagsPath(job_name), val)
         IN  [root |-> r.node, heap |-> r.heap]
    ELSE cfg

MissingTagsError(job_name, file, missing_tags) ==
    <<Finding("missing_tags", file, job_name, "", missing_tags, <<>>)>>

\* one turn of "for job_name, job_def in jobs.items()"
tags_job(cfg, job_name, job_def, file) ==
    IF ~IsMap(job_def, cfg.heap) THEN [raised |-> TRUE, e |-> <<>>, cfg |-> cfg]
    ELSE LET tags == Get(job_def, cfg.heap, "tags", Map(<<>>))
             clusters == Iter(Get(job_def, cfg.heap, "job_clusters", Lst(<<>>)),
                              cfg.heap)
         IN  IF ~clusters.ok THEN [raised |-> TRUE, e |-> <<>>, cfg |-> cfg]
             ELSE LET u == update_from_clusters(tags, Deref(tags, cfg.heap),
                                                clusters.items, 1, cfg.heap)
                      cfg2 == WriteTags(cfg, job_name, job_def, u.val)
                  IN  IF u.raised \/ u.val.t # "map"
                      THEN [raised |-> TRUE, e |-> <<>>, cfg |-> cfg2]
                      ELSE LET missing_tags == required_tags \ Keys(u.val.kv) IN
                           [raised |-> FALSE,
                            e |-> IF missing_tags # {}
                                  THEN MissingTagsError(job_name, file, missing_tags)
                                  ELSE <<>>,
                            cfg |-> cfg2]

RECURSIVE tags_jobs(_, _, _)
\* the loop over jobs.items() from the i-th job on, on the live graph
tags_jobs(cfg, i, file) ==
    IF i > Len(JobsOf(cfg).kv) THEN [raised |-> FALSE, e |-> <<>>, cfg |-> cfg]
    ELSE LET job == JobsOf(cfg).kv[i]
             r == tags_job(cfg, job.k, job.v, file)
         IN  IF r.raised THEN r
             ELSE LET rest == tags_jobs(r.cfg, i + 1, file) IN
                  [raised |-> rest.raised, e |-> r.e \o rest.e, cfg |-> rest.cfg]

check_required_tags(cfg, file) ==
    IF ~JobsOf(cfg).ok THEN [raised |-> TRUE, e |-> <<>>, cfg |-> cfg]
    ELSE tags_jobs(cfg, 1, file)

(***************************************************************************)
(* check_security_compliance.  The patterns are searched in                *)
(* yaml.dump(job_config), the text the dumper writes for the loaded graph, *)
(* not in the text of the file: the dumper writes a str in quotes only     *)
(* when the plain text would be read back as something else.               *)
(***************************************************************************)
Quotes == {"'", "\""}

\* the characters yaml.dump writes for a scalar
Represent(v) ==
    CASE v.t = "str" ->
           IF ResolvePlain(v.s) = Str(v.s) THEN Chars(v.s)
           ELSE <<"'">> \o Chars(v.s) \o <<"'">>
      [] v.t = "int" -> Chars(ToString(v.n))
      [] OTHER -> <<"n", "u", "l", "l">>

\* the line "key: value" of the dump
DumpLine(k, v) == Chars(k) \o <<":", " ">> \o Represent(v)

\* the characters of the file's text for a scalar
Written(v) == IF v.q THEN <<"\"">> \o Chars(v.text) \o <<"\"">> ELSE Chars(v.text)

\* the line "key: value" of the file
FileLine(k, v) == Chars(k) \o <<":", " ">> \o Written(v)

RECURSIVE ScalarPairs(_, _)
\* the key/scalar pairs of every dict of the graph below n
ScalarPairs(n, heap) ==
    LET d == Deref(n, heap) IN
    CASE d.t = "map" ->
           UNION {IF d.kv[i].v.t \in {"map", "seq", "alias"}
                  THEN ScalarPairs(d.kv[i].v, heap)
                  ELSE {d.kv[i]} : i \in 1..Len(d.kv)}
      [] d.t = "seq" -> UNION {ScalarPairs(d.xs[i], heap) : i \in 1..Len(d.xs)}
      [] OTHER -> {}

\* the lines of yaml.dump(job_config) that hold a key and a scalar
DumpLines(cfg) ==
    {DumpLine(p.k, p.v) : p \in ScalarPairs(cfg.root, cfg.heap)}

AllIn(L, from, to, S) == \A m \in from..to : L[m] \in S

\* \s*[:=]\s*['"][^'"]+['"] matches L from position j
AssignsLiteralAt(L, j) ==
    \E a \in j..Len(L) :
        /\ AllIn(L, j, a - 1, {" "})
        /\ L[a] \in {":", "="}
        /\ \E b \in (a + 1)..Len(L) :
               /\ AllIn(L, a + 1, b - 1, {" "})
               /\ L[b] \in Quotes
               /\ \E c \in (b + 2)..Len(L) :
                      /\ L[c] \in Quotes
                      /\ \A m \in (b + 1)..(c - 1) : L[m] \notin Quotes

\* re.search(word[s]?\s*[:=]\s*['"][^'"]+['"], L, re.IGNORECASE) on a line
SearchLine(word, L) ==
    LET low == [m \in 1..Len(L) |-> Lower(L[m])]
        w == Chars(word)
    IN  \E i \in 1..Len(L) :
            /\ PrefixAt(low, i, w)
            /\ \/ AssignsLiteralAt(L, i + Len(w))
               \/ /\ i + Len(w) <= Len(L)
                  /\ low[i + Len(w)] = "s"
                  /\ AssignsLiteralAt(L, i + Len(w) + 1)

\* re.search(pattern, job_str, re.IGNORECASE)
Search(word, lines) == \E L \in lines : SearchLine(word, L)

SecretError(file) == Finding("secret", file, "", "", {}, <<>>)

RECURSIVE security_patterns_from(_, _, _)
\* "for pattern in self.security_patterns" from the i-th pattern on
security_patterns_from(i, lines, file) ==
    IF i > Len(security_patterns) THEN Ok
    ELSE Then(When(Search(security_patterns[i], lines), Error(SecretError(file))),
              security_patterns_from(i + 1, lines, file))

RECURSIVE security_tasks(_, _, _, _)
security_tasks(items, i, heap, job_name) ==
    IF i > Len(items) THEN Ok
    ELSE IF ~IsMap(items[i], heap) THEN Raise
    ELSE LET notebook_task == Get(items[i], heap, "notebook_task", Map(<<>>)) IN
         IF ~IsMap(notebook_task, heap) THEN Raise
         ELSE LET notebook_path == Deref(Get(notebook_task, heap, "notebook_path",
                                             Str("")), heap)
              IN  IF notebook_path.t \in {"null", "int"} THEN Raise
                  ELSE Then(When(/\ IsStr(notebook_path)
                                 /\ \/ Contains(notebook_path.s, "/tmp/")
                                    \/ Contains(notebook_path.s, "/personal/"),
                                 Warning(Finding("notebook_path", "", job_name,
                                                 notebook_path.s, {}, <<>>))),
                            security_tasks(items, i + 1, heap, job_name))

security_job(job_name, job_def, heap) ==
    IF ~IsMap(job_def, heap) THEN Raise
    ELSE LET tasks == Iter(Get(job_def, heap, "tasks", Lst(<<>>)), heap) IN
         IF ~tasks.ok THEN Raise
         ELSE Then(security_tasks(tasks.items, 1, heap, job_name),
                   LET max_concurrent == Get(job_def, heap, "max_concurrent_runs",
                                             Num(1))
                   IN  IF max_concurrent.t # "int" THEN Raise
                       ELSE When(max_concurrent.n > 5,
                                 Warning(Finding("max_concurrent", "", job_name,
                                                 ToString(max_concurrent.n), {},
                                                 <<>>))))

RECURSIVE security_jobs(_, _, _)
security_jobs(kv, i, heap) ==
    IF i > Len(kv) THEN Ok
    ELSE Then(security_job(kv[i].k, kv[i].v, heap), security_jobs(kv, i + 1, heap))

check_security_compliance(cfg, file) ==
    Then(security_patterns_from(1, DumpLines(cfg), file),
         IF ~JobsOf(cfg).ok THEN Raise
         ELSE security_jobs(JobsOf(cfg).kv, 1, cfg.heap))

(***************************************************************************)
(* check_cost_optimization                                                 *)
(***************************************************************************)
\* isinstance(n, (int, str)) and str(n).isdigit() and int(n) > 10
ManyWorkers(n) ==
    \/ n.t = "int" /\ n.n > 10
    \/ n.t = "str" /\ IsDigit(n.s) /\ IntOfText[n.s] > 10

RECURSIVE cost_clusters(_, _, _, _)
cost_clusters(items, i, heap, job_name) ==
    IF i > Len(items) THEN Ok
    ELSE IF ~IsMap(items[i], heap) THEN Raise
    ELSE LET new_cluster == Get(items[i], heap, "new_cluster", Map(<<>>)) IN
         IF ~IsMap(new_cluster, heap) THEN Raise
         ELSE LET num_workers == Get(new_cluster, heap, "num_workers", None)
                  node_type == Get(new_cluster, heap, "node_type_id", None)
              IN  Then(When(ManyWorkers(num_workers),
                            Suggestion(Finding("workers", "", job_name,
                                               PyStr(num_workers), {}, <<>>))),
                  Then(When(IsStr(node_type) /\ ~StartsWith(node_type.s, "${"),
                            Suggestion(Finding("node_type", "", job_name, "", {},
                                               <<>>))),
                       cost_clusters(items, i + 1, heap, job_name)))

cost_job(job_name, job_def, heap) ==
    IF ~IsMap(job_def, heap) THEN Raise
    ELSE LET clusters == Iter(Get(job_def, heap, "job_clusters", Lst(<<>>)), heap)
         IN  IF ~clusters.ok THEN Raise
             ELSE cost_clusters(clusters.items, 1, heap, job_name)

RECURSIVE cost_jobs(_, _, _)
cost_jobs(kv, i, heap) ==
    IF i > Len(kv) THEN Ok
    ELSE Then(cost_job(kv[i].k, kv[i].v, heap), cost_jobs(kv, i + 1, heap))

check_cost_optimization(cfg, file) ==
    IF ~JobsOf(cfg).ok THEN Raise ELSE cost_jobs(JobsOf(cfg).kv, 1, cfg.heap)

(***************************************************************************)
(* check_best_practices                                                    *)
(***************************************************************************)
best_job(job_name, job_def, heap) ==
    IF ~IsMap(job_def, heap) THEN Raise
    ELSE LET email_notifications == Get(job_def, heap, "email_notifications",
                                        Map(<<>>))
         IN  IF ~IsMap(email_notifications, heap) THEN Raise
             ELSE Then(When(Falsy(Get(email_notifications, heap, "on_failure",
                                      None), heap),
                            Suggestion(Finding("email", "", job_name, "", {},
                                               <<>>))),
                  Then(When(~In(job_def, heap, "timeout_seconds"),
                            Suggestion(Finding("timeout", "", job_name, "", {},
                                               <<>>))),
                       When(~In(job_def, heap, "retry_on_timeout"),
                            Suggestion(Finding("retry", "", job_name, "", {},
                                               <<>>)))))

RECURSIVE best_jobs(_, _, _)
best_jobs(kv, i, heap) ==
    IF i > Len(kv) THEN Ok
    ELSE Then(best_job(kv[i].k, kv[i].v, heap), best_jobs(kv, i + 1, heap))

check_best_practices(cfg, file) ==
    IF ~JobsOf(cfg).ok THEN Raise ELSE best_jobs(JobsOf(cfg).kv, 1, cfg.heap)

(***************************************************************************)
(* load_yaml, extract_environment_variables and                            *)
(* validate_environment_consistency                                        *)
(***************************************************************************)
LoadError(file) == <<Finding("load_failed", file.name, "", "", {}, <<>>)>>

\* load_yaml with an except clause that records nothing
load_yaml_silent(file) ==
    IF ~file.readable THEN [cfg |-> EmptyConfig, e |-> <<>>]
    ELSE LET c == SafeLoad(file.doc) IN
         [cfg |-> IF Falsy(c.root, c.heap) THEN EmptyConfig ELSE c, e |-> <<>>]

\* the dict load_yaml returns and the errors it appends; a file that cannot
\* be opened or parsed raises inside the try
load_yaml(file) ==
    IF ~file.readable THEN [cfg |-> EmptyConfig, e |-> LoadError(file)]
    ELSE LET c == SafeLoad(file.doc) IN
         [cfg |-> IF Falsy(c.root, c.heap) THEN EmptyConfig ELSE c, e |-> <<>>]

\* the merge that forgets the global variables
Merged_target_only(a, b) == b

\* {**a, **b} on the pairs of two dicts
Merged(a, b) == Update(a, b, 1)

RECURSIVE env_targets(_, _, _, _)
\* "for target_name, target_config in targets.items()" from the i-th on
env_targets(kv, i, global_variables, heap) ==
    IF i > Len(kv) THEN [raised |-> FALSE, envs |-> <<>>]
    ELSE IF ~IsMap(kv[i].v, heap) THEN [raised |-> TRUE, envs |-> <<>>]
    ELSE LET target_variables == Get(kv[i].v, heap, "variables", Map(<<>>)) IN
         IF ~IsMap(global_variables, heap) \/ ~IsMap(target_variables, heap)
         THEN [raised |-> TRUE, envs |-> <<>>]
         ELSE LET merged_variables ==
                      Merged(Deref(global_variables, heap).kv,
                             Deref(target_variables, heap).kv)
                  rest == env_targets(kv, i + 1, global_variables, heap)
              IN  [raised |-> rest.raised,
                   envs |-> <<[name |-> kv[i].k, vars |-> Keys(merged_variables)]>>
                            \o rest.envs]

\* extract_environment_variables adding the "global" environment whenever
\* there are global variables, targets or not
extract_environment_variables_always_global(file) ==
    LET l == load_yaml(file)
        config == l.cfg.root
        heap == l.cfg.heap
    IN  IF Falsy(config, heap) THEN [raised |-> FALSE, e |-> l.e, envs |-> <<>>]
        ELSE IF ~IsMap(config, heap) THEN [raised |-> TRUE, e |-> l.e, envs |-> <<>>]
        ELSE LET global_variables == Get(config, heap, "variables", Map(<<>>))
                 targets == Get(config, heap, "targets", Map(<<>>))
             IN  IF ~IsMap(targets, heap)
                 THEN [raised |-> TRUE, e |-> l.e, envs |-> <<>>]
                 ELSE LET t == env_targets(Deref(targets, heap).kv, 1,
                                           global_variables, heap)
                      IN  [raised |-> t.raised, e |-> l.e,
                           envs |-> IF ~t.raised /\ ~Falsy(global_variables, heap)
                                    THEN t.envs \o <<[name |-> "global",
                                            vars |-> IF IsMap(global_variables, heap)
                                                     THEN Keys(Deref(global_variables,
                                                                     heap).kv)
                                                     ELSE {}]>>
                                    ELSE t.envs]

\* env_variables as the ordered (name, variable names) pairs, the errors
\* load_yaml appended, and whether an exception escaped
extract_environment_variables(file) ==
    LET l == load_yaml(file)
        config == l.cfg.root
        heap == l.cfg.heap
    IN  IF Falsy(config, heap) THEN [raised |-> FALSE, e |-> l.e, envs |-> <<>>]
        ELSE IF ~IsMap(config, heap) THEN [raised |-> TRUE, e |-> l.e, envs |-> <<>>]
        ELSE LET global_variables == Get(config, heap, "variables", Map(<<>>))
                 targets == Get(config, heap, "targets", Map(<<>>))
             IN  IF ~IsMap(targets, heap)
                 THEN [raised |-> TRUE, e |-> l.e, envs |-> <<>>]
                 ELSE LET t == env_targets(Deref(targets, heap).kv, 1,
                                           global_variables, heap)
                      IN  [raised |-> t.raised, e |-> l.e,
                           envs |-> IF t.envs = <<>> /\ ~t.raised
                                       /\ ~Falsy(global_variables, heap)
                                    THEN <<[name |-> "global",
                                            vars |-> IF IsMap(global_variables, heap)
                                                     THEN Keys(Deref(global_variables,
                                                                     heap).kv)
                                                     ELSE {}]>>
                                    ELSE t.envs]

\* all_var_names
AllVarNames(envs) == UNION {envs[i].vars : i \in 1..Len(envs)}

\* missing_envs of one variable: the environments without it, in order
MissingEnvs(envs, var_name) ==
    SelectSeq([i \in 1..Len(envs) |-> envs[i].name],
              LAMBDA n : \E i \in 1..Len(envs) :
                             envs[i].name = n /\ var_name \notin envs[i].vars)

RECURSIVE consistency_warnings(_, _, _)
\* "for var_name in all_var_names", the set being visited in the given order
consistency_warnings(envs, order, i) ==
    IF i > Len(order) THEN <<>>
    ELSE (IF MissingEnvs(envs, order[i]) # <<>>
          THEN <<Finding("env_consistency", "", "", order[i], {},
                         MissingEnvs(envs, order[i]))>>
          ELSE <<>>)
         \o consistency_warnings(envs, order, i + 1)

\* the orders in which a for loop may visit a set
Orders(S) ==
    {o \in [1..Cardinality(S) -> S] : \A a, b \in 1..Cardinality(S) :
                                          a # b => o[a] # o[b]}

\* validate_environment_consistency, the set all_var_names visited in order
validate_environment_consistency(file, order) ==
    LET x == extract_environment_variables(file) IN
    [raised |-> x.raised, e |-> x.e, s |-> <<>>,
     w |-> IF x.raised \/ Len(x.envs) < 2 THEN <<>>
           ELSE consistency_warnings(x.envs, order, 1)]

\* the sets of variable names validate_environment_consistency loops over
VarNamesOf(file) ==
    LET x == extract_environment_variables(file) IN
    IF x.raised \/ Len(x.envs) < 2 THEN {} ELSE AllVarNames(x.envs)

(***************************************************************************)
(* print_results and the exit decision of main                             *)
(***************************************************************************)
\* the number of lines print_results hands to _write_output
ReportLines(e, w, s) ==
    IF Len(e) + Len(w) + Len(s) = 0 THEN 6
    ELSE 3 + (IF e # <<>> THEN 2 + Len(e) ELSE 0)
           + (IF w # <<>> THEN 2 + Len(w) ELSE 0)
           + (IF s # <<>> THEN 2 + Len(s) ELSE 0)
           + 3

\* the exit decision with --strict left out of it
ExitStatus_ignoring_strict(valid, strict_flag, w) == IF ~valid THEN 1 ELSE 0

\* the status main leaves with: sys.exit(1), or falling off its end
ExitStatus(valid, strict_flag, w) ==
    IF ~valid \/ (strict_flag /\ w # <<>>) THEN 1 ELSE 0

(***************************************************************************)
(* The run of main(), one action per call.                                 *)
(***************************************************************************)
\* an exception nobody catches ends the process with a traceback, status 1
Uncaught ==
    /\ pc' = "raised"
    /\ raised_in' = pc
    /\ exit_code' = 1

Running(next) ==
    /\ pc' = next
    /\ UNCHANGED <<raised_in, exit_code>>

Inputs == <<strict, output_given, io, top, jobs_dir_exists, job_files>>

\* main, lines 390-400: the arguments, the default report directory
MakeReportDir ==
    /\ pc = "main"
    /\ IF ~output_given /\ io = "mkdir" THEN Uncaught ELSE Running("validate")
    /\ UNCHANGED <<Inputs, fi, loaded, job_config, errors, warnings,
                   suggestions, is_valid, console, report>>

\* validate, lines 283-291
ValidateEnvironmentConsistency ==
    /\ pc = "validate"
    /\ \E order \in Orders(VarNamesOf(top)) :
           LET r == validate_environment_consistency(top, order) IN
           /\ errors' = errors \o r.e
           /\ warnings' = warnings \o r.w
           /\ IF r.raised THEN Uncaught ELSE Running("job_files")
    /\ UNCHANGED <<Inputs, fi, loaded, job_config, suggestions, is_valid,
                   console, report>>

\* validate_job_file, lines 267-271, for the next discovered file
LoadJobFile ==
    /\ pc = "job_files"
    /\ jobs_dir_exists
    /\ fi <= Len(job_files)
    /\ LET l == load_yaml(job_files[fi]) IN
       /\ errors' = errors \o l.e
       /\ loaded' = l.cfg
       /\ job_config' = l.cfg
       /\ IF Falsy(l.cfg.root, l.cfg.heap)
          THEN fi' = fi + 1 /\ Running("job_files")
          ELSE fi' = fi /\ Running("check_variable_usage_policy")
    /\ UNCHANGED <<Inputs, warnings, suggestions, is_valid, console, report>>

\* what a check that leaves the graph alone does to the run
Check(r, next) ==
    /\ errors' = errors \o r.e
    /\ warnings' = warnings \o r.w
    /\ suggestions' = suggestions \o r.s
    /\ IF r.raised THEN Uncaught ELSE Running(next)
    /\ UNCHANGED <<Inputs, loaded, job_config, is_valid, console, report>>

FilePath == job_files[fi].name

CheckVariableUsagePolicy ==
    /\ pc = "check_variable_usage_policy"
    /\ Check(check_variable_usage_policy(job_config, FilePath),
             "check_naming_conventions")
    /\ UNCHANGED fi

CheckNamingConventions ==
    /\ pc = "check_naming_conventions"
    /\ Check(check_naming_conventions(job_config, FilePath), "check_required_tags")
    /\ UNCHANGED fi

CheckRequiredTags ==
    /\ pc = "check_required_tags"
    /\ LET r == check_required_tags(job_config, FilePath) IN
       /\ errors' = errors \o r.e
       /\ job_config' = r.cfg
       /\ IF r.raised THEN Uncaught ELSE Running("check_security_compliance")
    /\ UNCHANGED <<Inputs, fi, loaded, warnings, suggestions, is_valid, console,
                   report>>

CheckSecurityCompliance ==
    /\ pc = "check_security_compliance"
    /\ Check(check_security_compliance(job_config, FilePath),
             "check_cost_optimization")
    /\ UNCHANGED fi

CheckCostOptimization ==
    /\ pc = "check_cost_optimization"
    /\ Check(check_cost_optimization(job_config, FilePath), "check_best_practices")
    /\ UNCHANGED fi

CheckBestPractices ==
    /\ pc = "check_best_practices"
    /\ Check(check_best_practices(job_config, FilePath), "job_files")
    /\ fi' = IF pc' = "raised" THEN fi ELSE fi + 1

\* validate, line 299
ValidateReturn ==
    /\ pc = "job_files"
    /\ jobs_dir_exists => fi > Len(job_files)
    /\ is_valid' = (Len(errors) = 0)
    /\ Running("print_results")
    /\ UNCHANGED <<Inputs, fi, loaded, job_config, errors, warnings,
                   suggestions, console, report>>

\* print_results: a failure to open the file or to write its header is
\* caught and reported; a failure of a later write is not caught
PrintResults ==
    /\ pc = "print_results"
    /\ LET lines == ReportLines(errors, warnings, suggestions)
           opened == io # "open"
       IN  IF opened /\ io = "write"
           THEN /\ console' = [warned |-> FALSE, lines |-> 1, complete |-> FALSE]
                /\ report' = "partial"
                /\ Uncaught
           ELSE /\ console' = [warned |-> ~opened, lines |-> lines,
                               complete |-> TRUE]
                /\ report' = IF opened THEN "complete" ELSE "none"
                /\ Running("exit")
    /\ UNCHANGED <<Inputs, fi, loaded, job_config, errors, warnings,
                   suggestions, is_valid>>

\* main, lines 405-406
ExitDecision ==
    /\ pc = "exit"
    /\ exit_code' = ExitStatus(is_valid, strict, warnings)
    /\ pc' = "done"
    /\ UNCHANGED <<Inputs, fi, loaded, job_config, errors, warnings,
                   suggestions, is_valid, console, report, raised_in>>

Next ==
    \/ MakeReportDir
    \/ ValidateEnvironmentConsistency
    \/ LoadJobFile
    \/ CheckVariableUsagePolicy
    \/ CheckNamingConventions
    \/ CheckRequiredTags
    \/ CheckSecurityCompliance
    \/ CheckCostOptimization
    \/ CheckBestPractices
    \/ ValidateReturn
    \/ PrintResults
    \/ ExitDecision

(***************************************************************************)
(* Inputs.  A file is its path, whether open and the parser accept it, and *)
(* its document: the root node and the anchored mappings.                  *)
(***************************************************************************)
P(text) == Scalar(text, FALSE)
Q(text) == Scalar(text, TRUE)
Doc(root) == [root |-> root, anchors |-> <<>>]
Shared(root, anchors) == [root |-> root, anchors |-> anchors]
Readable(doc) == [readable |-> TRUE, doc |-> doc]
Unreadable == [readable |-> FALSE, doc |-> Doc(P(""))]
EmptyFile == Readable(Doc(P("")))

FileName(i) == "resources/f" \o ToString(i) \o ".yml"
JobName(i) == "Job" \o ToString(i)

\* the files with the paths the globs give them
Named(fs) ==
    [i \in 1..Len(fs) |->
        [name |-> FileName(i), readable |-> fs[i].readable, doc |-> fs[i].doc]]

SeqsOf(S, lo, hi) == UNION {[1..k -> S] : k \in lo..hi}

JobsDoc(jobs) == Doc(Map(<<KV("resources", Map(<<KV("jobs", Map(jobs))>>))>>))

TagMap(S) ==
    Map(SelectSeq(<<KV("cost_center", P("abc")), KV("environment", P("abc")),
                    KV("team", P("abc"))>>,
                  LAMBDA p : p.k \in S))

Notified == KV("email_notifications", Map(<<KV("on_failure", Lst(<<P("abc")>>))>>))

\* a job no check has anything to say about
CleanJob ==
    Map(<<KV("name", P("${bundle.environment}")), KV("tags", TagMap(required_tags)),
          Notified, KV("timeout_seconds", P("15")),
          KV("retry_on_timeout", P("abc"))>>)

\* a job with one suggestion
UntimedJob ==
    Map(<<KV("name", P("${bundle.environment}")), KV("tags", TagMap(required_tags)),
          Notified, KV("retry_on_timeout", P("abc"))>>)

\* a job with two errors, four warnings and five suggestions
DirtyJob ==
    Map(<<KV("name", P("abc")), KV("catalog", P("abc")),
          KV("max_concurrent_runs", P("6")),
          KV("job_clusters",
             Lst(<<Map(<<KV("job_cluster_key", P("Main")),
                         KV("new_cluster",
                            Map(<<KV("num_workers", P("15")),
                                  KV("node_type_id", P("abc"))>>))>>)>>)),
          KV("tasks",
             Lst(<<Map(<<KV("notebook_task",
                            Map(<<KV("notebook_path", P("/tmp/nb"))>>))>>)>>))>>)

\* a job whose tags a cluster's custom_tags override
OverriddenJob ==
    Map(<<KV("name", P("${bundle.environment}")),
          KV("tags", Map(<<KV("cost_center", P("abc")), KV("environment", P("abc")),
                           KV("team", P("abc")), KV("token", Q("12345"))>>)),
          KV("job_clusters",
             Lst(<<Map(<<KV("job_cluster_key", P("main")),
                         KV("new_cluster",
                            Map(<<KV("custom_tags",
                                     Map(<<KV("token", P("abc"))>>))>>))>>)>>)),
          Notified, KV("timeout_seconds", P("15")),
          KV("retry_on_timeout", P("abc"))>>)

MainFiles ==
    {Unreadable, EmptyFile,
     Readable(JobsDoc(<<KV("Etl", UntimedJob)>>)),
     Readable(JobsDoc(<<KV("etl", UntimedJob)>>)),
     Readable(JobsDoc(<<KV("Etl", DirtyJob)>>)),
     Readable(JobsDoc(<<KV("Etl", OverriddenJob)>>)),
     \* a job definition that is null, before a well-formed sibling
     Readable(JobsDoc(<<KV("Etl", P("")), KV("Ops", DirtyJob)>>))}

Variables(S) ==
    Map(SelectSeq(<<KV("x", P("abc")), KV("y", P("abc"))>>, LAMBDA p : p.k \in S))

TargetName(i) == "env" \o ToString(i)

\* databricks.yml; globals is <<>> or <<the global variable names>>,
\* targets is <<>> or <<the targets>>, and a target is <<>> or <<its own
\* variable names>>: the empty sequence leaves the key out
TopDoc(globals, targets) ==
    Readable(Doc(Map(
        (IF globals = <<>> THEN <<>> ELSE <<KV("variables", Variables(globals[1]))>>)
        \o (IF targets = <<>> THEN <<>>
            ELSE <<KV("targets",
                      Map([i \in 1..Len(targets[1]) |->
                              KV(TargetName(i),
                                 Map(IF targets[1][i] = <<>> THEN <<>>
                                     ELSE <<KV("variables",
                                               Variables(targets[1][i][1]))>>))]))>>))))

MainTops ==
    {Unreadable, EmptyFile,
     TopDoc(<<{"x"}>>, << <<<<{"y"}>>, <<>>>> >>)}

\* the ways the file system can refuse the report
Refusals ==
    {[output_given |-> o, io |-> f] :
        o \in BOOLEAN, f \in {"none", "open", "write"}}
    \cup {[output_given |-> FALSE, io |-> "mkdir"]}

NoRefusal == {[output_given |-> TRUE, io |-> "none"]}

\* the state after argument parsing, for the given families of inputs
InitWith(tops, filesets, stricts, refusals) ==
    /\ pc = "main"
    /\ strict \in stricts
    /\ \E r \in refusals : output_given = r.output_given /\ io = r.io
    /\ top \in {[name |-> "databricks.yml", readable |-> t.readable, doc |-> t.doc] :
                    t \in tops}
    /\ \E fs \in filesets : job_files = Named(fs)
    /\ jobs_dir_exists \in (IF job_files = <<>> THEN BOOLEAN ELSE {TRUE})
    /\ fi = 1
    /\ loaded = EmptyConfig
    /\ job_config = EmptyConfig
    /\ errors = <<>>
    /\ warnings = <<>>
    /\ suggestions = <<>>
    /\ is_valid = FALSE
    /\ console = [warned |-> FALSE, lines |-> 0, complete |-> FALSE]
    /\ report = "none"
    /\ raised_in = ""
    /\ exit_code = -1

Init == InitWith(MainTops, SeqsOf(MainFiles, 0, MaxFiles), BOOLEAN, Refusals)

Spec == Init /\ [][Next]_vars

(***************************************************************************)
(* Runs on families of inputs that vary what one check reads.              *)
(***************************************************************************)
CleanTop == TopDoc(<<>>, <<>>)
CleanFile == Readable(JobsDoc(<<KV("Etl", CleanJob)>>))

\* nested documents with sensitive and other keys at several depths
Leaves == {P("abc"), P("${v}"), P("15")}
KeyLists == {<<"catalog">>, <<"name">>, <<"schema", "name">>}
MapsOver(S) ==
    UNION {{Map([i \in 1..Len(ks) |-> KV(ks[i], f[i])]) : f \in [1..Len(ks) -> S]} :
               ks \in KeyLists}
ListsOver(S) == {Lst(xs) : xs \in SeqsOf(S, 1, MaxSeq)}
Nested == Leaves \cup MapsOver(Leaves) \cup ListsOver(Leaves)
WalkDocs ==
    {Doc(Map(<<KV("catalog", a), KV("name", b)>>)) : a, b \in Nested}
    \cup {Doc(Map(<<KV("tasks", l)>>)) : l \in ListsOver(MapsOver(Leaves))}
    \cup {Doc(Lst(<<m>>)) : m \in MapsOver(Leaves)}
    \cup {Shared(Map(<<KV("name", Alias(1)), KV("tasks", Lst(<<Alias(1)>>))>>), <<m>>) :
              m \in MapsOver(Leaves)}

InitWalk ==
    InitWith({CleanTop}, {<<Readable(d)>> : d \in WalkDocs}, {FALSE}, NoRefusal)

SpecWalk == InitWalk /\ [][Next]_vars

\* jobs with tags of their own, tags shared through an anchor, or none, and
\* clusters with and without custom_tags
Cluster(custom) ==
    Map(<<KV("job_cluster_key", P("main")),
          KV("new_cluster",
             Map(IF custom = <<>> THEN <<>>
                 ELSE <<KV("custom_tags", TagMap(custom[1]))>>))>>)
TagsOptions ==
    {<<>>, <<Alias(1)>>} \cup {<<TagMap(S)>> : S \in {{}, {"team"}, required_tags}}
ClusterOptions ==
    {<<>>, <<Cluster(<<>>)>>, <<Cluster(<<{"cost_center", "environment"}>>)>>,
     <<Cluster(<<{"cost_center"}>>), Cluster(<<{"environment"}>>)>>}
TaggedJobs ==
    {Map((IF t = <<>> THEN <<>> ELSE <<KV("tags", t[1])>>)
         \o (IF c = <<>> THEN <<>> ELSE <<KV("job_clusters", Lst(c))>>)) :
        t \in TagsOptions, c \in ClusterOptions}
TagsDocs ==
    {Shared(JobsDoc([i \in 1..Len(js) |-> KV(JobName(i), js[i])]).root,
            <<TagMap({"team"})>>) : js \in SeqsOf(TaggedJobs, 1, MaxJobs)}

InitTags ==
    InitWith({CleanTop}, {<<Readable(d)>> : d \in TagsDocs}, {FALSE}, NoRefusal)

SpecTags == InitTags /\ [][Next]_vars

\* documents that assign literals, quoted or not, to keys with and without
\* a secret's name, once or several times
SecretKeys == {"password", "Passwords", "api_key", "name"}
SecretValues == {Q("hunter2"), P("hunter2"), Q("12345"), P("12345")}
Assignments == {Map(<<KV(k, v)>>) : k \in SecretKeys, v \in SecretValues}
SecretDocs ==
    {Doc(Map(<<KV("parameters", Lst(xs))>>)) : xs \in SeqsOf(Assignments, 1, MaxSeq)}

InitSecrets ==
    InitWith({CleanTop}, {<<Readable(d)>> : d \in SecretDocs}, {FALSE}, NoRefusal)

SpecSecrets == InitSecrets /\ [][Next]_vars

\* databricks.yml with and without global variables, with up to MaxTargets
\* targets, each with variables of its own or none
VariableSets == {{}, {"x"}, {"y"}, {"x", "y"}}
TargetOptions == {<<>>} \cup {<<S>> : S \in VariableSets}
EnvTops ==
    {Unreadable, EmptyFile}
    \cup {TopDoc(g, t) : g \in {<<>>, <<{}>>, <<{"x"}>>},
                         t \in {<<>>} \cup {<<ts>> : ts \in SeqsOf(TargetOptions, 0,
                                                                   MaxTargets)}}

InitEnv == InitWith(EnvTops, {<<>>, <<CleanFile>>}, {FALSE}, NoRefusal)

SpecEnv == InitEnv /\ [][Next]_vars

(***************************************************************************)
(* Properties.                                                             *)
(***************************************************************************)
Checks == {"check_variable_usage_policy", "check_naming_conventions",
           "check_required_tags", "check_security_compliance",
           "check_cost_optimization", "check_best_practices"}

\* the findings of a bucket with the given kind, in order
OfKind(bucket, kind) == SelectSeq(bucket, LAMBDA f : f.kind = kind)

\* C1: a run that reaches the exit decision leaves with status 1 exactly
\* when there is an error, or --strict is set and there is a warning, and
\* with status 0 otherwise; suggestions play no part.
ExitStatusFollowsCounts ==
    pc = "done" =>
        /\ exit_code \in {0, 1}
        /\ exit_code = 1 <=> (Len(errors) > 0 \/ (strict /\ Len(warnings) > 0))

\* a strict run with warnings, suggestions and no error has left with 1
StrictWarningsExit ==
    /\ pc = "done"
    /\ strict
    /\ errors = <<>>
    /\ warnings # <<>>
    /\ suggestions # <<>>
    /\ exit_code = 1

\* C2: the load of a job file that fails appends exactly one error, naming
\* the file, appends no warning and no suggestion, runs no check on the
\* file, raises nothing, and leaves validate() at the next discovered file.
FailedLoadIsOneError ==
    [][(pc = "job_files" /\ jobs_dir_exists /\ fi <= Len(job_files)
           /\ ~job_files[fi].readable)
       => /\ Len(errors') = Len(errors) + 1
          /\ SubSeq(errors', 1, Len(errors)) = errors
          /\ errors'[Len(errors')].kind = "load_failed"
          /\ errors'[Len(errors')].file = job_files[fi].name
          /\ warnings' = warnings
          /\ suggestions' = suggestions
          /\ pc' = "job_files"
          /\ fi' = fi + 1
          /\ raised_in' = ""]_vars

\* the checks run on the second file after the load of the first failed
ChecksAfterFailedLoad ==
    /\ pc = "check_variable_usage_policy"
    /\ fi = 2
    /\ ~job_files[1].readable
    /\ OfKind(errors, "load_failed") # <<>>

\* the keys the tags of a job and the custom_tags of its clusters hold in
\* the document as loaded
TagsPresent(job_def, heap) ==
    LET clusters == Deref(Get(job_def, heap, "job_clusters", Lst(<<>>)), heap).xs
        custom(c) == Get(Get(c, heap, "new_cluster", Map(<<>>)), heap,
                         "custom_tags", Map(<<>>))
    IN  Keys(Deref(Get(job_def, heap, "tags", Map(<<>>)), heap).kv)
        \cup UNION {Keys(Deref(custom(clusters[i]), heap).kv) :
                        i \in 1..Len(clusters)}

\* C3: check_required_tags appends, for every job, exactly one error that
\* lists the required tags found neither in the job's tags nor in the
\* custom_tags of its clusters when there are such tags, no error for the
\* job when there are none, and never a warning or a suggestion.
OneErrorPerJobMissingTags ==
    [][pc = "check_required_tags"
       => /\ warnings' = warnings
          /\ suggestions' = suggestions
          /\ SubSeq(errors', 1, Len(errors)) = errors
          /\ LET added == SubSeq(errors', Len(errors) + 1, Len(errors'))
                 jobs == JobsOf(loaded).kv
             IN  /\ \A i \in 1..Len(added) : added[i].kind = "missing_tags"
                 /\ \A i \in 1..Len(jobs) :
                        LET found == SelectSeq(added, LAMBDA f : f.job = jobs[i].k)
                            M == required_tags \ TagsPresent(jobs[i].v, loaded.heap)
                        IN  IF M = {} THEN found = <<>>
                            ELSE Len(found) = 1 /\ found[1].names = M]_vars

\* a path of the document: keys and list indexes from the root
KeySegment(k) == [key |-> k, index |-> -1]
IndexSegment(i) == [key |-> "", index |-> i]

\* the text is a variable reference
IsReference(s) == Len(Chars(s)) >= 2 /\ Chars(s)[1] = "$" /\ Chars(s)[2] = "{"

RECURSIVE HardcodedAt(_, _)
\* the paths below n of the sensitive keys that hold a literal string
HardcodedAt(n, heap) ==
    LET d == Deref(n, heap) IN
    CASE d.t = "map" ->
           UNION {(IF /\ d.kv[i].k \in sensitive_fields
                      /\ d.kv[i].v.t = "str"
                      /\ ~IsReference(d.kv[i].v.s)
                   THEN {<<KeySegment(d.kv[i].k)>>} ELSE {})
                  \cup {<<KeySegment(d.kv[i].k)>> \o q :
                           q \in HardcodedAt(d.kv[i].v, heap)} :
                     i \in 1..Len(d.kv)}
      [] d.t = "seq" ->
           UNION {{<<IndexSegment(i - 1)>> \o q : q \in HardcodedAt(d.xs[i], heap)} :
                     i \in 1..Len(d.xs)}
      [] OTHER -> {}

RECURSIVE PathText(_)
\* a path as text: keys joined by dots, indexes in brackets
PathText(q) ==
    IF q = <<>> THEN ""
    ELSE LET last == q[Len(q)]
             front == PathText(SubSeq(q, 1, Len(q) - 1))
         IN  IF last.index >= 0 THEN front \o "[" \o ToString(last.index) \o "]"
             ELSE IF Len(q) = 1 THEN last.key
             ELSE front \o "." \o last.key

\* C4: check_variable_usage_policy appends exactly one error for every
\* sensitive key, at any depth, whose value is a string that is no variable
\* reference, naming its path from the root, and no other error.
OneErrorPerHardcodedField ==
    pc = "check_naming_conventions" =>
        LET found == SelectSeq(errors, LAMBDA f : f.kind = "hardcoded"
                                                   /\ f.file = FilePath)
            paths == {found[i].path : i \in 1..Len(found)}
            expected == HardcodedAt(loaded.root, loaded.heap)
        IN  /\ Len(found) = Cardinality(expected)
            /\ Cardinality(paths) = Len(found)
            /\ paths = {PathText(q) : q \in expected}
            /\ warnings = <<>>
            /\ suggestions = <<>>
            /\ Len(errors) = Len(found)

\* two literals found below a list and a third under a key of the root
HardcodedBelowList ==
    /\ pc = "check_naming_conventions"
    /\ \E i, j \in 1..Len(errors) :
           /\ errors[i].path = "tasks[0].catalog"
           /\ errors[j].path = "tasks[1].schema"

\* databricks.yml as written: the global variable names, the targets and
\* the variable names of a target
TopIsMapping == top.readable /\ top.doc.root.t = "map"
NamesUnder(n) ==
    IF HasKey(n.kv, "variables") THEN Keys(Lookup(n.kv, "variables").kv) ELSE {}
TargetsWritten ==
    IF TopIsMapping /\ HasKey(top.doc.root.kv, "targets")
    THEN Lookup(top.doc.root.kv, "targets").kv ELSE <<>>
EnvNames(i) == NamesUnder(top.doc.root) \cup NamesUnder(TargetsWritten[i].v)

\* the state validate_environment_consistency leaves
EnvironmentsChecked == pc = "job_files" /\ fi = 1

\* C5: with two or more targets, every variable some environment lacks gets
\* exactly one warning, naming the variable and exactly the environments
\* that lack it, a variable every environment has gets none, and an
\* environment's variables are the global ones and its own.
OneWarningPerInconsistentVariable ==
    (EnvironmentsChecked /\ Len(TargetsWritten) >= 2) =>
        LET n == Len(TargetsWritten)
            all == UNION {EnvNames(i) : i \in 1..n}
        IN  /\ errors = <<>>
            /\ \A k \in 1..Len(warnings) :
                   warnings[k].kind = "env_consistency" /\ warnings[k].path \in all
            /\ \A v \in all :
                   LET lacking == {i \in 1..n : v \notin EnvNames(i)}
                       found == SelectSeq(warnings, LAMBDA f : f.path = v)
                   IN  IF lacking = {} THEN found = <<>>
                       ELSE /\ Len(found) = 1
                            /\ Len(found[1].envs) = Cardinality(lacking)
                            /\ {found[1].envs[k] : k \in 1..Len(found[1].envs)}
                                   = {TargetsWritten[i].k : i \in lacking}

\* the first target defines x and y, the second x: one warning, y missing
\* from the second
SecondTargetLacksY ==
    /\ EnvironmentsChecked
    /\ Len(TargetsWritten) = 2
    /\ EnvNames(1) = {"x", "y"}
    /\ EnvNames(2) = {"x"}
    /\ warnings = <<Finding("env_consistency", "", "", "y", {}, <<TargetName(2)>>)>>

\* databricks.yml is absent or unreadable, is empty, or defines fewer than
\* two targets
FewerThanTwoEnvironments == Len(TargetsWritten) < 2

\* C6 as stated: with fewer than two environments the check leaves the
\* three buckets as they were, also when databricks.yml is absent.
FewEnvironmentsNoFindings ==
    (EnvironmentsChecked /\ FewerThanTwoEnvironments) =>
        errors = <<>> /\ warnings = <<>> /\ suggestions = <<>>

\* C6 as amended: with fewer than two environments the check appends no
\* warning and no suggestion; it appends no error when databricks.yml
\* loads, and exactly one error, the loader's, when the file is absent or
\* unreadable.
FewEnvironmentsOnlyLoadError ==
    (EnvironmentsChecked /\ FewerThanTwoEnvironments) =>
        /\ warnings = <<>>
        /\ suggestions = <<>>
        /\ IF top.readable THEN errors = <<>>
           ELSE errors = <<Finding("load_failed", top.name, "", "", {}, <<>>)>>

\* the check has run without databricks.yml and recorded the failed load
AbsentTopRecorded ==
    /\ EnvironmentsChecked
    /\ ~top.readable
    /\ Len(errors) = 1

\* the lines of a file that hold a key and a scalar, as written
FileLines(doc) == {FileLine(p.k, p.v) : p \in ScalarPairs(doc.root, doc.anchors)}

\* the patterns that match the given lines
Matching(lines) ==
    {i \in 1..Len(security_patterns) : Search(security_patterns[i], lines)}

SecretErrors == SelectSeq(errors, LAMBDA f : f.kind = "secret" /\ f.file = FilePath)

\* C7: check_security_compliance appends exactly one error for every
\* pattern that matches somewhere in the file, however often it matches;
\* a file that holds password: "hunter2" and nothing else that matches
\* gets exactly one.
OneErrorPerPatternInFile ==
    pc = "check_cost_optimization" =>
        Len(SecretErrors) = Cardinality(Matching(FileLines(job_files[fi].doc)))

\* the findings the well-formed jobs of a file are due from
\* check_required_tags
TagErrorsDue(i) ==
    LET cfg == SafeLoad(job_files[i].doc)
        jobs == JobsOf(cfg).kv
    IN  {[file |-> job_files[i].name, job |-> jobs[j].k] :
            j \in {j \in 1..Len(jobs) :
                      /\ IsMap(jobs[j].v, cfg.heap)
                      /\ required_tags \ TagsPresent(jobs[j].v, cfg.heap) # {}}}

\* C8: no check raises, and the well-formed jobs of every file get their
\* findings whatever their siblings look like.
ChecksNeverRaise ==
    /\ raised_in \notin Checks
    /\ pc = "print_results" =>
           \A i \in 1..Len(job_files) :
               job_files[i].readable =>
                   \A d \in TagErrorsDue(i) :
                       \E k \in 1..Len(errors) :
                           /\ errors[k].kind = "missing_tags"
                           /\ errors[k].file = d.file
                           /\ errors[k].job = d.job

\* C9: a report that cannot be created or written never ends the run: the
\* console gets the warning and the whole report, and the exit status is
\* the one the errors and warnings decide.
ReportFailureNeverFatal ==
    /\ raised_in \notin {"main", "print_results"}
    /\ (pc = "done" /\ io # "none") =>
           /\ console.warned
           /\ console.complete
           /\ exit_code = ExitStatus(errors = <<>>, strict, warnings)

\* C10: every check leaves the graph as the loader produced it, so the
\* secrets check finds what the loaded document holds.
ChecksLeaveTreeAlone ==
    /\ pc \in Checks => job_config = loaded
    /\ pc = "check_cost_optimization" =>
           Len(SecretErrors) = Cardinality(Matching(DumpLines(loaded)))

====
